---- MODULE Spec2Model ----
(***************************************************************************)
(* Snakes and ladders simulator (src/src/main.rs, src/src/dice.rs).        *)
(*                                                                         *)
(* The model follows one Sim from the construction of its Board through    *)
(* the calls roll_resolve, roll, turn and run.  A call that draws from the *)
(* die source is cut at the draws: pc names the place the program waits    *)
(* at.  Values of type usize are naturals; the bounds below keep every     *)
(* counter far from the width of usize.                                    *)
(***************************************************************************)
EXTENDS Integers, Sequences, FiniteSets, TLC

VARIABLES
    size_in,        \* Board::new argument size
    routes_in,      \* Board::new argument routes (a function: source -> destination)
    board,          \* the Board returned by Board::new: [size, routes]
    error,          \* the BadRouteError returned by Board::new
    sim,            \* the Sim's position, luck sets and statistics
    rng,            \* the Sim's die source (Box<dyn Roll>)
    pc,             \* where the program is
    in_run,         \* TRUE while run() is on the call stack
    turn_climb,     \* local of turn()
    turn_slide,     \* local of turn()
    die_rolls,      \* local of turn()
    last,           \* frame of the latest roll_resolve: its RollResult and rolled_position
    new_position,   \* local of follow_routes, while it is looping
    turn_base,      \* history: climb_distance and slide_distance when the turn began
    turn_log,       \* history: the turns played so far
    only_run,       \* history: no operation but run() was called on the Sim so far
    before,         \* history: sim, pc and die_rolls before the latest step
    setup,          \* a test's set-up: the square the Sim is placed on and its MockDie queue
    batch,          \* run_sim_batch: count, and the die values each Sim of the batch will draw
    sims,           \* run_sim_batch: the Sims of the batch, each with its die source and its place in run()
    result          \* run_sim_batch: what MultiSimResult::from_sims returned

vars == <<size_in, routes_in, board, error, sim, rng, pc, in_run, turn_climb,
          turn_slide, die_rolls, last, new_position, turn_base, turn_log, only_run,
          before, setup, batch, sims, result>>

----------------------------------------------------------------------------
(* Program constant and the bounds of the model. *)

DIE_SIZE == 6

\* Board::new inputs of the construction specification: sizes 0..MaxBoardSize,
\* at most MaxBoardRoutes routes over the squares 0..size+1.
MaxBoardSize == 4
MaxBoardRoutes == 2

\* The game specification: boards of size MaxSize with at most MaxRoutes routes
\* that start on the squares 1..MaxSource and end on any square 0..MaxSize,
\* at most MaxRolls rolls and MaxTurns turns per Sim, roll_resolve called with
\* die values 0..MaxDieArg, and at most MaxSpin hops followed in a circle.
MaxSize == 7
MaxSource == 3
MaxRoutes == 2
MaxRolls == 3
MaxTurns == 2
MaxDieArg == 7
MaxSpin == 4

----------------------------------------------------------------------------
(* Small helpers. *)

Max(a, b) == IF a >= b THEN a ELSE b

\* All maps with at most k entries, keys in K and values in V.
RouteMaps(K, V, k) ==
    UNION {[D -> V] : D \in {X \in SUBSET K : Cardinality(X) <= k}}

NoRoutes == <<>>

----------------------------------------------------------------------------
(* Board::new *)

\* The checks made on one route, in the order of the source.
RouteDefectStartAtSize(size, from, to) ==
    IF (from = 0) \/ (from > size) THEN "start"
    ELSE IF to > size THEN "end"
    ELSE IF from = to THEN "self"
    ELSE "ok"

RouteDefect(size, from, to) ==
    IF (from = 0) \/ (from >= size) THEN "start"
    ELSE IF to > size THEN "end"
    ELSE IF from = to THEN "self"
    ELSE "ok"

\* The BadRoute error for an offending route: its defect and the square named.
RouteError(size, from, to) ==
    LET d == RouteDefect(size, from, to)
    IN  [defect |-> d, square |-> IF d = "end" THEN to ELSE from]

\* Every result Board::new can return.  The routes are visited in the HashMap's
\* iteration order, which is arbitrary: the first offending route met decides
\* the error, so each offending route's error is a possible result.
BoardNewResults(size, routes) ==
    LET bad == {f \in DOMAIN routes : RouteDefect(size, f, routes[f]) # "ok"}
    IN  IF bad = {}
        THEN {[ok |-> TRUE, board |-> [size |-> size, routes |-> routes],
               error |-> [defect |-> "none", square |-> 0]]}
        ELSE {[ok |-> FALSE, board |-> [size |-> 0, routes |-> NoRoutes],
               error |-> RouteError(size, f, routes[f])] : f \in bad}

----------------------------------------------------------------------------
(* calc_lucky_spaces *)

\* *board.routes.get(&i).unwrap_or(&i)
RouteOutcome(b, i) == IF i \in DOMAIN b.routes THEN b.routes[i] ELSE i

NearMissDeltas == {-2, -1, 1, 2}

\* The near-miss loop for square i: some other_i = i + delta with other_i > 0
\* is the start of a route leading downwards.
NearMissAdjacentOnly(b, i) ==
    \E delta \in {-1, 1} :
        LET other_i == i + delta
        IN  other_i > 0 /\ RouteOutcome(b, other_i) < other_i

NearMiss(b, i) ==
    \E delta \in NearMissDeltas :
        LET other_i == i + delta
        IN  other_i > 0 /\ RouteOutcome(b, other_i) < other_i

\* One round of the loop "for i in 0..board.size": whether it inserts i into
\* lucky_spaces, and whether into unlucky_spaces.
CalcStep(b, i) ==
    LET out == RouteOutcome(b, i)
    IN  [lucky |-> (out > i) \/ NearMiss(b, i), unlucky |-> out < i]

\* The loop: no round reads what another inserted, so the sets it leaves are
\* the squares that some round inserted.
CalcLoop(b) ==
    [lucky |-> {i \in 0..(b.size - 1) : CalcStep(b, i).lucky},
     unlucky |-> {i \in 0..(b.size - 1) : CalcStep(b, i).unlucky}]

\* "Finally, the winning space is lucky"
WinningSpaceForgotten(b, lucky) == lucky

WinningSpaceLucky(b, lucky) == lucky \cup {b.size}

calc_lucky_spaces(b) ==
    LET r == CalcLoop(b)
    IN  [lucky |-> WinningSpaceLucky(b, r.lucky), unlucky |-> r.unlucky]

----------------------------------------------------------------------------
(* Sim *)

ZeroSim ==
    [position |-> 0, lucky_spaces |-> {}, unlucky_spaces |-> {},
     turn_count |-> 0, roll_count |-> 0, climb_count |-> 0, slide_count |-> 0,
     climb_distance |-> 0, slide_distance |-> 0, biggest_climb |-> 0,
     biggest_slide |-> 0, longest_turn |-> <<>>, lucky_rolls |-> 0,
     unlucky_rolls |-> 0]

\* Sim::new
SimNewState(b) ==
    LET luck == calc_lucky_spaces(b)
    IN  [ZeroSim EXCEPT !.lucky_spaces = luck.lucky, !.unlucky_spaces = luck.unlucky]

NoRoll == [die_value |-> 0, rolled_position |-> 0, climb_distance |-> 0,
           slide_distance |-> 0]

----------------------------------------------------------------------------
(* The construction specification: Board::new and Sim::new on drawn inputs. *)

ExampleSize == 20
ExampleRoutes == (5 :> 8) @@ (14 :> 2)

BoardInputs ==
    {[size |-> s, routes |-> r] :
        s \in 0..MaxBoardSize,
        r \in RouteMaps(0..(MaxBoardSize + 1), 0..(MaxBoardSize + 1), MaxBoardRoutes)}
    \cup {[size |-> ExampleSize, routes |-> ExampleRoutes]}

\* Option<T>: None, and Some(x).
None == <<>>
Some(x) == <<x>>

\* No batch: run_sim_batch is not called.
NoBatch ==
    /\ batch = [count |-> 0, queues |-> <<>>]
    /\ sims = <<>>
    /\ result = None

\* No test set-up: the Sim starts on square 0 and has no scripted die.
NoSetup == [position |-> 0, queued_results |-> <<>>]

InitWith(inputs, rngs) ==
    /\ \E i \in inputs : size_in = i.size /\ routes_in = i.routes
    /\ board = [size |-> 0, routes |-> NoRoutes]
    /\ error = [defect |-> "none", square |-> 0]
    /\ sim = ZeroSim
    /\ rng \in rngs
    /\ pc = "new"
    /\ in_run = FALSE
    /\ turn_climb = 0
    /\ turn_slide = 0
    /\ die_rolls = <<>>
    /\ last = NoRoll
    /\ new_position = 0
    /\ turn_base = [climb |-> 0, slide |-> 0]
    /\ turn_log = {}
    /\ only_run = TRUE
    /\ before = [sim |-> ZeroSim, pc |-> "new", die_rolls |-> <<>>, sims |-> <<>>,
                 walked |-> 0]
    /\ setup = NoSetup
    /\ NoBatch

\* The squares the latest step walked by the die: the die value of a roll
\* that roll_resolve did not refuse as an illegal move, 0 for any other step.
StepWalked ==
    IF sim.roll_count = before.sim.roll_count + 1 /\ last.rolled_position <= board.size
    THEN last.die_value
    ELSE 0

\* The sum of the die values of the rolls so far that were not overrolls.
Walked == before.walked + StepWalked

\* What a step records in before.
Here ==
    [sim |-> sim, pc |-> pc, die_rolls |-> die_rolls, sims |-> sims,
     walked |-> Walked]

Unrollable == [kind |-> "Unrollable", queued_results |-> <<>>]
ThreadRng == [kind |-> "ThreadRng", queued_results |-> <<>>]

BoardNew ==
    /\ pc = "new"
    /\ \E r \in BoardNewResults(size_in, routes_in) :
        /\ board' = r.board
        /\ error' = r.error
        /\ pc' = IF r.ok THEN "board" ELSE "rejected"
    /\ before' = Here
    /\ UNCHANGED <<setup, batch, sims, result>>
    /\ UNCHANGED <<size_in, routes_in, sim, rng, in_run, turn_climb, turn_slide,
                   die_rolls, last, new_position, turn_base, turn_log,
                   only_run>>

SimNew ==
    /\ pc = "board"
    /\ sim' = SimNewState(board)
    /\ pc' = "idle"
    /\ before' = Here
    /\ UNCHANGED <<setup, batch, sims, result>>
    /\ UNCHANGED <<size_in, routes_in, board, error, rng, in_run, turn_climb,
                   turn_slide, die_rolls, last, new_position, turn_base, turn_log,
                   only_run>>

InitBoard == InitWith(BoardInputs, {Unrollable})

NextBoard == BoardNew \/ SimNew

SpecBoard == InitBoard /\ [][NextBoard]_vars

----------------------------------------------------------------------------
(* The die sources of dice.rs *)

\* MockDie: queued_results, popped right to left.
MockDie(q) == [kind |-> "MockDie", queued_results |-> q]

\* A die source that yields any value of 1..DIE_SIZE for its first `free`
\* rolls and the value 1 from then on: an implementor of Roll whose values
\* are in 1..DIE_SIZE and that yields 1 infinitely often.
LoadedDie(free) == [kind |-> "LoadedDie", queued_results |-> <<>>, free |-> free]

LoadedOutcomes(r) ==
    IF r.free > 0
    THEN {[value |-> d, rng |-> LoadedDie(r.free - 1)] : d \in 1..DIE_SIZE}
    ELSE {[value |-> 1, rng |-> r]}

\* Roll::roll: the values the die source can return, each with the source's
\* next state.  The empty set: the call panics.
RngOutcomesFromFront(r) ==
    IF r.kind = "ThreadRng"
    THEN {[value |-> d, rng |-> r] : d \in 1..DIE_SIZE}
    ELSE IF r.kind = "LoadedDie"
    THEN LoadedOutcomes(r)
    ELSE IF r.kind = "MockDie" /\ r.queued_results # <<>>
    THEN {[value |-> Head(r.queued_results), rng |-> MockDie(Tail(r.queued_results))]}
    ELSE {}

RngOutcomes(r) ==
    IF r.kind = "ThreadRng"
    THEN {[value |-> d, rng |-> r] : d \in 1..DIE_SIZE}
    ELSE IF r.kind = "LoadedDie"
    THEN LoadedOutcomes(r)
    ELSE IF r.kind = "MockDie" /\ r.queued_results # <<>>
    THEN {[value |-> r.queued_results[Len(r.queued_results)],
           rng |-> MockDie(SubSeq(r.queued_results, 1, Len(r.queued_results) - 1))]}
    ELSE {}

----------------------------------------------------------------------------
(* Sim's operations, as functions of the Sim's state *)

has_won_one_short(b, s) == s.position >= b.size - 1

has_won(b, s) == s.position = b.size

\* One iteration of follow_routes' loop at new_position, which starts a route.
FollowHopUncounted(routes, s, pos) ==
    LET p == routes[pos]
    IN  IF p > pos
        THEN [s EXCEPT !.climb_distance = @ + (p - pos)]
        ELSE [s EXCEPT !.slide_distance = @ + (pos - p)]

FollowHopAllUp(routes, s, pos) ==
    LET p == routes[pos]
    IN  IF p > pos
        THEN [s EXCEPT !.climb_count = @ + 1, !.climb_distance = @ + (p - pos)]
        ELSE [s EXCEPT !.slide_count = @ + 1, !.climb_distance = @ + (pos - p)]

FollowHop(routes, s, pos) ==
    LET p == routes[pos]
    IN  IF p > pos
        THEN [s EXCEPT !.climb_count = @ + 1, !.climb_distance = @ + (p - pos)]
        ELSE [s EXCEPT !.slide_count = @ + 1, !.slide_distance = @ + (pos - p)]

\* follow_routes' loop from new_position on, to its exit.
FollowLoopOnce(routes, s, pos) ==
    IF pos \in DOMAIN routes
    THEN [FollowHop(routes, s, pos) EXCEPT !.position = routes[pos]]
    ELSE [s EXCEPT !.position = pos]

RECURSIVE FollowLoop(_, _, _)
FollowLoop(routes, s, pos) ==
    IF pos \in DOMAIN routes
    THEN FollowLoop(routes, FollowHop(routes, s, pos), routes[pos])
    ELSE [s EXCEPT !.position = pos]

follow_routes(routes, s) == FollowLoop(routes, s, s.position)

\* Whether follow_routes' loop started at pos never exits: the routes from pos
\* lead back to a square already visited.
RECURSIVE LoopsFrom(_, _, _)
LoopsFrom(routes, pos, seen) ==
    IF pos \notin DOMAIN routes THEN FALSE
    ELSE IF pos \in seen THEN TRUE
    ELSE LoopsFrom(routes, routes[pos], seen \cup {pos})

NeverSettles(routes, pos) == LoopsFrom(routes, pos, {})

is_lucky_roll(s, rolled_position) == rolled_position \in s.lucky_spaces

is_unlucky_roll(s, rolled_position) == rolled_position \in s.unlucky_spaces

\* The luck scoring at the end of roll_resolve.
ScoreLuckWhereSettled(s, rolled_position) ==
    IF is_unlucky_roll(s, s.position)
    THEN [s EXCEPT !.unlucky_rolls = @ + 1]
    ELSE IF is_lucky_roll(s, s.position)
    THEN [s EXCEPT !.lucky_rolls = @ + 1]
    ELSE s

ScoreLuckUsingUp(s, rolled_position) ==
    IF is_unlucky_roll(s, rolled_position)
    THEN [s EXCEPT !.unlucky_rolls = @ + 1]
    ELSE IF is_lucky_roll(s, rolled_position)
    THEN [s EXCEPT !.lucky_rolls = @ + 1,
                   !.lucky_spaces = @ \ {rolled_position}]
    ELSE s

ScoreLuck(s, rolled_position) ==
    IF is_unlucky_roll(s, rolled_position)
    THEN [s EXCEPT !.unlucky_rolls = @ + 1]
    ELSE IF is_lucky_roll(s, rolled_position)
    THEN [s EXCEPT !.lucky_rolls = @ + 1]
    ELSE s

\* The test "rolled_position > self.board.size".
IllegalMoveNever(b, rolled_position) == FALSE

IllegalMoveAtEnd(b, rolled_position) == rolled_position >= b.size

IllegalMoveOffByOne(b, rolled_position) == rolled_position > b.size + 1

IllegalMove(b, rolled_position) == rolled_position > b.size

\* The distances of the RollResult, from the position follow_routes left.
RollDistances(position, rolled_position) ==
    IF position > rolled_position
    THEN [climb_distance |-> position - rolled_position, slide_distance |-> 0]
    ELSE [climb_distance |-> 0, slide_distance |-> rolled_position - position]

\* The "Illegal move!" return: nothing but roll_count has changed.
IllegalMoveReturnToEnd(b, s1, frame) ==
    [sim |-> [s1 EXCEPT !.position = b.size], frame |-> frame, settled |-> TRUE]

IllegalMoveReturn(b, s1, frame) ==
    [sim |-> s1, frame |-> frame, settled |-> TRUE]

\* roll_resolve(die_value): the Sim it leaves and the frame (the RollResult
\* returned and rolled_position).  settled is FALSE when follow_routes never
\* returns: the Sim is then as the call left it on entering follow_routes.
roll_resolve(b, s, die_value) ==
    LET s1 == [s EXCEPT !.roll_count = @ + 1]
        rolled_position == s.position + die_value
        frame == [die_value |-> die_value, rolled_position |-> rolled_position,
                  climb_distance |-> 0, slide_distance |-> 0]
    IN  IF IllegalMove(b, rolled_position)
        THEN IllegalMoveReturn(b, s1, frame)
        ELSE IF NeverSettles(b.routes, rolled_position)
        THEN [sim |-> [s1 EXCEPT !.position = rolled_position], frame |-> frame,
              settled |-> FALSE]
        ELSE LET s2 == follow_routes(b.routes, [s1 EXCEPT !.position = rolled_position])
                 dist == RollDistances(s2.position, rolled_position)
             IN  [sim |-> ScoreLuck(s2, rolled_position),
                  frame |-> [frame EXCEPT !.climb_distance = dist.climb_distance,
                                          !.slide_distance = dist.slide_distance],
                  settled |-> TRUE]

\* Ord for Vec<usize>: -1, 0 or 1 as a is less than, equal to or greater than b.
RECURSIVE VecCmp(_, _)
VecCmp(a, b) ==
    IF a = <<>> THEN (IF b = <<>> THEN 0 ELSE -1)
    ELSE IF b = <<>> THEN 1
    ELSE IF Head(a) < Head(b) THEN -1
    ELSE IF Head(a) > Head(b) THEN 1
    ELSE VecCmp(Tail(a), Tail(b))

\* die_rolls > self.longest_turn
VecGreater(a, b) == VecCmp(a, b) = 1

\* turn(): whether the loop goes round again after a roll.
TurnContinuesFromFive(b, s, die_value) ==
    ~(die_value < DIE_SIZE - 1) /\ ~has_won(b, s)

TurnContinuesPastMax(b, s, die_value) == ~(die_value <= DIE_SIZE) /\ ~has_won(b, s)

TurnContinues(b, s, die_value) == ~(die_value < DIE_SIZE) /\ ~has_won(b, s)

\* turn(): "Store turn stats".
StoreTurnLatest(s, climb, slide, rolls) ==
    [s EXCEPT !.biggest_climb = Max(@, climb),
              !.biggest_slide = Max(@, slide),
              !.longest_turn = rolls]

StoreTurnAdding(s, climb, slide, rolls) ==
    [s EXCEPT !.biggest_climb = @ + climb,
              !.biggest_slide = @ + slide,
              !.longest_turn = IF VecGreater(rolls, @) THEN rolls ELSE @]

StoreTurn(s, climb, slide, rolls) ==
    [s EXCEPT !.biggest_climb = Max(@, climb),
              !.biggest_slide = Max(@, slide),
              !.longest_turn = IF VecGreater(rolls, @) THEN rolls ELSE @]

----------------------------------------------------------------------------
(* The calls on a Sim *)

\* The caps of the model on rolls and turns.  A MockDie caps itself: it has
\* no more values than were queued.  On a board without routes a LoadedDie
\* rolls at most board.size times after its free rolls.
RollLimit ==
    IF rng.kind = "MockDie" THEN Len(setup.queued_results)
    ELSE IF rng.kind = "LoadedDie" THEN MaxRolls + board.size
    ELSE MaxRolls

TurnLimit ==
    IF rng.kind = "MockDie" THEN Len(setup.queued_results)
    ELSE IF rng.kind = "LoadedDie" THEN MaxRolls + board.size
    ELSE MaxTurns

\* The bookkeeping shared by the three callers of roll_resolve.
Resolve(die_value, r) ==
    /\ sim' = r.sim
    /\ last' = r.frame
    /\ new_position' = r.sim.position

\* sim.roll_resolve(die_value), called on its own (as the tests do).
RollResolveCall ==
    /\ pc = "idle"
    /\ sim.roll_count < RollLimit
    /\ \E die_value \in 0..MaxDieArg :
        LET r == roll_resolve(board, sim, die_value)
        IN  /\ Resolve(die_value, r)
            /\ pc' = IF r.settled THEN "idle" ELSE "follow_routes"
    /\ only_run' = FALSE
    /\ before' = Here
    /\ UNCHANGED <<setup, batch, sims, result>>
    /\ UNCHANGED <<size_in, routes_in, board, error, rng, in_run, turn_climb,
                   turn_slide, die_rolls, turn_base, turn_log>>

\* sim.roll(), called on its own.
RollCall ==
    /\ pc = "idle"
    /\ sim.roll_count < RollLimit
    /\ \E o \in RngOutcomes(rng) :
        LET r == roll_resolve(board, sim, o.value)
        IN  /\ Resolve(o.value, r)
            /\ rng' = o.rng
            /\ pc' = IF r.settled THEN "idle" ELSE "follow_routes"
    /\ only_run' = FALSE
    /\ before' = Here
    /\ UNCHANGED <<setup, batch, sims, result>>
    /\ UNCHANGED <<size_in, routes_in, board, error, in_run, turn_climb,
                   turn_slide, die_rolls, turn_base, turn_log>>

\* The first lines of turn(), to the loop's first test.
EnterTurn ==
    /\ sim.turn_count < TurnLimit
    /\ sim' = [sim EXCEPT !.turn_count = @ + 1]
    /\ turn_climb' = 0
    /\ turn_slide' = 0
    /\ die_rolls' = <<>>
    /\ turn_base' = [climb |-> sim.climb_distance, slide |-> sim.slide_distance]
    /\ pc' = IF has_won(board, sim) THEN "turn_store" ELSE "turn"

\* sim.turn(), called on its own.
TurnCall ==
    /\ pc = "idle"
    /\ EnterTurn
    /\ only_run' = FALSE
    /\ before' = Here
    /\ UNCHANGED <<setup, batch, sims, result>>
    /\ UNCHANGED <<size_in, routes_in, board, error, rng, in_run, last,
                   new_position, turn_log>>

\* sim.run() is called.
RunCall ==
    /\ pc = "idle"
    /\ pc' = "run"
    /\ in_run' = TRUE
    /\ UNCHANGED only_run
    /\ before' = Here
    /\ UNCHANGED <<setup, batch, sims, result>>
    /\ UNCHANGED <<size_in, routes_in, board, error, sim, rng, turn_climb,
                   turn_slide, die_rolls, last, new_position, turn_base, turn_log>>

\* run(): the loop's test; it returns, or calls turn().
RunLoop ==
    /\ pc = "run"
    /\ IF has_won(board, sim)
       THEN /\ pc' = "idle"
            /\ in_run' = FALSE
            /\ UNCHANGED <<sim, turn_climb, turn_slide, die_rolls, turn_base>>
       ELSE /\ EnterTurn
            /\ UNCHANGED in_run
    /\ before' = Here
    /\ UNCHANGED <<setup, batch, sims, result>>
    /\ UNCHANGED <<size_in, routes_in, board, error, rng, last, new_position,
                   turn_log,
                   only_run>>

\* turn(): one round of the loop: roll, add up, and test whether to go on.
TurnRoll ==
    /\ pc = "turn"
    /\ sim.roll_count < RollLimit
    /\ \E o \in RngOutcomes(rng) :
        LET r == roll_resolve(board, sim, o.value)
        IN  /\ Resolve(o.value, r)
            /\ rng' = o.rng
            /\ turn_climb' = turn_climb + r.frame.climb_distance
            /\ turn_slide' = turn_slide + r.frame.slide_distance
            /\ die_rolls' = Append(die_rolls, r.frame.die_value)
            /\ pc' = IF ~r.settled THEN "follow_routes"
                     ELSE IF TurnContinues(board, r.sim, r.frame.die_value)
                     THEN "turn" ELSE "turn_store"
    /\ before' = Here
    /\ UNCHANGED <<setup, batch, sims, result>>
    /\ UNCHANGED <<size_in, routes_in, board, error, in_run, turn_base, turn_log,
                   only_run>>

\* turn(): the statistics are stored and turn() returns.
TurnStore ==
    /\ pc = "turn_store"
    /\ sim' = StoreTurn(sim, turn_climb, turn_slide, die_rolls)
    /\ turn_log' = turn_log \cup
            {[rolls |-> die_rolls,
              climb |-> sim.climb_distance - turn_base.climb,
              slide |-> sim.slide_distance - turn_base.slide]}
    /\ turn_climb' = 0
    /\ turn_slide' = 0
    /\ die_rolls' = <<>>
    /\ turn_base' = [climb |-> 0, slide |-> 0]
    /\ pc' = IF in_run THEN "run" ELSE "idle"
    /\ before' = Here
    /\ UNCHANGED <<setup, batch, sims, result>>
    /\ UNCHANGED <<size_in, routes_in, board, error, rng, in_run, last,
                   new_position,
                   only_run>>

\* roll(): the die source panics (Unrollable, or a MockDie that ran out).
RollPanic ==
    /\ pc \in {"idle", "turn"}
    /\ RngOutcomes(rng) = {}
    /\ pc' = "panicked"
    /\ only_run' = (only_run /\ pc # "idle")
    /\ before' = Here
    /\ UNCHANGED <<setup, batch, sims, result>>
    /\ UNCHANGED <<size_in, routes_in, board, error, sim, rng, in_run, turn_climb,
                   turn_slide, die_rolls, last, new_position, turn_base, turn_log>>

\* follow_routes on routes that lead round in a circle: one more round of a
\* loop that never exits.
FollowRoutesSpin ==
    /\ pc = "follow_routes"
    /\ sim.climb_count + sim.slide_count < MaxSpin
    /\ sim' = FollowHop(board.routes, sim, new_position)
    /\ new_position' = board.routes[new_position]
    /\ before' = Here
    /\ UNCHANGED <<setup, batch, sims, result>>
    /\ UNCHANGED <<size_in, routes_in, board, error, rng, pc, in_run, turn_climb,
                   turn_slide, die_rolls, last, turn_base, turn_log,
                   only_run>>

----------------------------------------------------------------------------
(* The game specification *)

GameInputs ==
    {[size |-> MaxSize, routes |-> r] :
        r \in RouteMaps(1..MaxSource, 0..MaxSize, MaxRoutes)}

Init == InitWith(GameInputs, {ThreadRng, Unrollable})

Next ==
    \/ BoardNew
    \/ SimNew
    \/ RollResolveCall
    \/ RollCall
    \/ TurnCall
    \/ RunCall
    \/ RunLoop
    \/ TurnRoll
    \/ TurnStore
    \/ RollPanic
    \/ FollowRoutesSpin

Spec == Init /\ [][Next]_vars

----------------------------------------------------------------------------
(* Vocabulary of the properties *)

\* A Sim exists: Board::new and Sim::new have returned.
SimBuilt == pc \notin {"new", "rejected", "board"}

\* A Sim existed before the latest step.
WasBuilt == before.pc \notin {"new", "rejected", "board"}

\* The latest step made a call of roll_resolve; last is its frame and
\* before.sim the Sim it was called on.
RollStep == sim.roll_count = before.sim.roll_count + 1

\* The latest roll_resolve was an overroll.
LastOverrolled == sim.roll_count >= 1 /\ last.rolled_position > board.size

----------------------------------------------------------------------------
(* C1: Overroll.  A roll_resolve(d) from position p with p + d > board.size
   adds 1 to roll_count, returns climb_distance = 0 and slide_distance = 0,
   and leaves the position and every other counter as they were. *)
OverrollOnlyCounts ==
    (RollStep /\ before.sim.position + last.die_value > board.size)
        => /\ sim = [before.sim EXCEPT !.roll_count = @ + 1]
           /\ last.climb_distance = 0
           /\ last.slide_distance = 0

\* An overroll made by a Sim that has moved, climbed and slid before.
OverrollSeen ==
    /\ pc = "idle"
    /\ LastOverrolled
    /\ sim.position > 0
    /\ sim.climb_count >= 1
    /\ sim.slide_count >= 1

----------------------------------------------------------------------------
(* C2: has_won() is true exactly when position = board.size, and Won is
   absorbing: from a won Sim every step leaves the position on board.size,
   and a roll with a die value in 1..DIE_SIZE changes roll_count alone and
   returns no climb and no slide. *)
WonIsAbsorbing ==
    /\ SimBuilt => (has_won(board, sim) <=> sim.position = board.size)
    /\ (WasBuilt /\ before.sim.position = board.size)
            => /\ sim.position = board.size
               /\ has_won(board, sim)
               /\ (RollStep /\ last.die_value \in 1..DIE_SIZE)
                    => /\ sim = [before.sim EXCEPT !.roll_count = @ + 1]
                       /\ last.climb_distance = 0
                       /\ last.slide_distance = 0

\* A won Sim that was rolled again, and took another turn.
RolledAfterWinning ==
    /\ pc = "idle"
    /\ has_won(board, sim)
    /\ LastOverrolled
    /\ last.rolled_position = board.size + last.die_value
    /\ last.die_value \in 1..DIE_SIZE
    /\ sim.turn_count >= 1

----------------------------------------------------------------------------
(* Route chains, stated without the loop of follow_routes *)

\* The squares reached from the squares of S along the routes.
RECURSIVE ReachedFrom(_, _)
ReachedFrom(routes, S) ==
    LET T == S \cup {routes[q] : q \in S \cap DOMAIN routes}
    IN  IF T = S THEN S ELSE ReachedFrom(routes, T)

\* No route leads, along the routes, back to its own start.
Acyclic(routes) ==
    \A q \in DOMAIN routes : q \notin ReachedFrom(routes, {routes[q]})

\* The starts of the hops of the chain that begins on square t.
ChainHops(routes, t) == ReachedFrom(routes, {t}) \cap DOMAIN routes

Ladders(routes, H) == {q \in H : routes[q] > q}
Snakes(routes, H) == {q \in H : routes[q] < q}

\* The sum of the lengths of the hops that start on the squares of H.
RECURSIVE HopLengths(_, _)
HopLengths(routes, H) ==
    IF H = {} THEN 0
    ELSE LET q == CHOOSE x \in H : TRUE
             len == IF routes[q] > q THEN routes[q] - q ELSE q - routes[q]
         IN  len + HopLengths(routes, H \ {q})

----------------------------------------------------------------------------
(* C3: Route-chain atomicity.  On a board with acyclic routes the position is
   never left on the start of a route, and a roll_resolve(d) that is no
   overroll leaves the position on the one square without a route that the
   chain from position + d reaches, adds to climb_count and slide_count the
   numbers of ladder and snake hops of that chain, and to climb_distance and
   slide_distance the summed lengths of those hops. *)
RouteChainSettled ==
    /\ (SimBuilt /\ Acyclic(board.routes))
            => sim.position \notin DOMAIN board.routes
    /\ (RollStep /\ Acyclic(board.routes)
                /\ before.sim.position + last.die_value <= board.size)
            => LET routes == board.routes
                   was == before.sim
                   target == was.position + last.die_value
                   hops == ChainHops(routes, target)
                   up == Ladders(routes, hops)
                   down == Snakes(routes, hops)
               IN  /\ sim.position \in ReachedFrom(routes, {target}) \ DOMAIN routes
                   /\ sim.climb_count = was.climb_count + Cardinality(up)
                   /\ sim.slide_count = was.slide_count + Cardinality(down)
                   /\ sim.climb_distance = was.climb_distance + HopLengths(routes, up)
                   /\ sim.slide_distance = was.slide_distance + HopLengths(routes, down)

\* One roll that went down a snake and then up a ladder to the winning square.
MixedChainToTheEnd ==
    /\ pc = "idle"
    /\ sim.roll_count = 1
    /\ last.rolled_position \in DOMAIN board.routes
    /\ board.routes[last.rolled_position] < last.rolled_position
    /\ sim.slide_count = 1
    /\ sim.climb_count = 1
    /\ sim.position = board.size

----------------------------------------------------------------------------
(* C4: Luck scoring.  A roll_resolve that is no overroll and returns scores
   the square position + d it rolled onto, not the square it settles on:
   unlucky_rolls + 1 if that square is in the unlucky set (also when it is in
   the lucky set too), else lucky_rolls + 1 if it is in the lucky set, else
   neither.  No step raises lucky_rolls + unlucky_rolls by more than 1, and
   lucky_rolls + unlucky_rolls <= roll_count throughout. *)
LuckScoredOnTarget ==
    /\ SimBuilt => sim.lucky_rolls + sim.unlucky_rolls <= sim.roll_count
    /\ WasBuilt
            => LET was == before.sim
               IN  /\ sim.lucky_rolls + sim.unlucky_rolls
                        <= was.lucky_rolls + was.unlucky_rolls + 1
                   /\ sim.lucky_rolls >= was.lucky_rolls
                   /\ sim.unlucky_rolls >= was.unlucky_rolls
                   /\ (sim.lucky_rolls + sim.unlucky_rolls
                        # was.lucky_rolls + was.unlucky_rolls) => RollStep
    /\ (RollStep /\ pc # "follow_routes"
                /\ before.sim.position + last.die_value <= board.size)
            => LET was == before.sim
                   target == was.position + last.die_value
                   lucky == sim.lucky_rolls - was.lucky_rolls
                   unlucky == sim.unlucky_rolls - was.unlucky_rolls
               IN  IF target \in was.unlucky_spaces THEN lucky = 0 /\ unlucky = 1
                   ELSE IF target \in was.lucky_spaces THEN lucky = 1 /\ unlucky = 0
                   ELSE lucky = 0 /\ unlucky = 0

\* A roll onto a square of both sets that settled on a square of the lucky
\* set alone, and was scored unlucky.
UnluckyTrumpsLucky ==
    /\ pc = "idle"
    /\ sim.roll_count = 1
    /\ last.rolled_position \in sim.unlucky_spaces \cap sim.lucky_spaces
    /\ sim.position \in sim.lucky_spaces \ sim.unlucky_spaces
    /\ sim.unlucky_rolls = 1
    /\ sim.lucky_rolls = 0

----------------------------------------------------------------------------
(* C5: Turn extension.  With die values in 1..DIE_SIZE, turn() rolls again
   after a roll exactly when that roll's die value is DIE_SIZE and the game
   is not won after it, an overroll of DIE_SIZE included; otherwise the turn
   ends.  So a turn begun by a Sim that has not won makes at least one roll,
   and every roll of a turn but the last has the die value DIE_SIZE. *)
TurnExtension ==
    /\ pc = "turn"
            => /\ ~has_won(board, sim)
               /\ \A i \in 1..Len(die_rolls) : die_rolls[i] = DIE_SIZE
    /\ pc = "turn_store"
            => /\ \A i \in 1..(Len(die_rolls) - 1) : die_rolls[i] = DIE_SIZE
               /\ die_rolls = <<>> => sim.position = board.size
    /\ (before.pc = "turn" /\ RollStep /\ pc # "follow_routes")
            => /\ last.die_value \in 1..DIE_SIZE
               /\ die_rolls = Append(before.die_rolls, last.die_value)
               /\ pc \in {"turn", "turn_store"}
               /\ pc = "turn" <=> (last.die_value = DIE_SIZE
                                     /\ sim.position # board.size)

\* A turn that goes on after an overroll of DIE_SIZE.
TurnGoesOnAfterOverroll ==
    /\ pc = "turn"
    /\ LastOverrolled
    /\ last.die_value = DIE_SIZE
    /\ die_rolls = <<DIE_SIZE>>
    /\ sim.position > 0

----------------------------------------------------------------------------
(* Vocabulary of the turn properties *)

\* turn() has returned at least once and no turn is under way.
AfterATurn == pc \in {"idle", "run"} /\ turn_log # {}

\* The greatest number of a non-empty finite set of numbers.
Greatest(S) == CHOOSE x \in S : \A y \in S : y <= x

\* a < b in the lexicographic order of sequences, a proper prefix being less.
SeqLess(a, b) ==
    \E k \in 0..Len(a) :
        /\ k <= Len(b)
        /\ \A i \in 1..k : a[i] = b[i]
        /\ \/ k = Len(a) /\ k < Len(b)
           \/ k < Len(a) /\ k < Len(b) /\ a[k + 1] < b[k + 1]

----------------------------------------------------------------------------
(* C6: After every turn(), biggest_climb is the greatest, over the turns
   played, of the amount climb_distance grew during the turn (every ladder
   hop of every chain of every roll of the turn), and biggest_slide likewise
   with slide_distance. *)
BiggestIsGreatestTurnTotal ==
    AfterATurn
        => /\ sim.biggest_climb = Greatest({t.climb : t \in turn_log})
           /\ sim.biggest_slide = Greatest({t.slide : t \in turn_log})

----------------------------------------------------------------------------
(* C7: Longest turn.  Sequences of die values are ordered lexicographically,
   a proper prefix below its extensions ([6,5] < [6,6,2] < [6,6,3]);
   longest_turn is the greatest, in this order, of the die-value sequences of
   the turns played so far (empty if none), a turn replaces it only by a
   strictly greater sequence, and it never decreases. *)
LongestTurnIsGreatest ==
    /\ SeqLess(<<6, 5>>, <<6, 6, 2>>) /\ SeqLess(<<6, 6, 2>>, <<6, 6, 3>>)
    /\ VecGreater(<<6, 6, 2>>, <<6, 5>>) /\ VecGreater(<<6, 6, 3>>, <<6, 6, 2>>)
    /\ ~VecGreater(<<6, 5>>, <<6, 6, 2>>) /\ ~VecGreater(<<6, 6, 2>>, <<6, 6, 3>>)
    /\ SimBuilt
            => /\ sim.longest_turn \in {t.rolls : t \in turn_log} \cup {<<>>}
               /\ \A t \in turn_log : ~SeqLess(sim.longest_turn, t.rolls)
    /\ WasBuilt
            => \/ sim.longest_turn = before.sim.longest_turn
               \/ /\ before.pc = "turn_store"
                  /\ sim.longest_turn = before.die_rolls
                  /\ SeqLess(before.sim.longest_turn, before.die_rolls)

\* A second turn whose rolls did not replace the greater rolls of the first,
\* or replaced the lesser rolls of the first.
TwoTurnsCompared ==
    /\ pc = "idle"
    /\ Len(sim.longest_turn) = 2
    /\ \E t \in turn_log : t.rolls # <<>> /\ SeqLess(t.rolls, sim.longest_turn)

----------------------------------------------------------------------------
(* C8: Board::new(size, routes) returns an error exactly when some route
   (from, to) has from = 0, from >= size, to > size or from = to; otherwise
   it returns the Board of the given size and routes.  With one offending
   route the error names an illegal start if from is outside 1..size-1, else
   an illegal end if to > size, else a self-loop. *)
Offends(size, from, to) ==
    from = 0 \/ from >= size \/ to > size \/ from = to

BoardNewValidates ==
    pc # "new"
        => LET offenders == {f \in DOMAIN routes_in : Offends(size_in, f, routes_in[f])}
           IN  /\ pc = "rejected" <=> offenders # {}
               /\ pc # "rejected"
                    => board = [size |-> size_in, routes |-> routes_in]
               /\ \A f \in offenders :
                    offenders = {f}
                        => error.defect =
                             IF f \notin 1..(size_in - 1) THEN "start"
                             ELSE IF routes_in[f] > size_in THEN "end"
                             ELSE "self"

\* Two routes, one fine and one leading to itself: no board is returned.
SelfLoopRejected ==
    /\ pc = "rejected"
    /\ error.defect = "self"
    /\ Cardinality(DOMAIN routes_in) = 2
    /\ \E f \in DOMAIN routes_in : ~Offends(size_in, f, routes_in[f])

----------------------------------------------------------------------------
(* C9: Luck classifier.  The unlucky set is the squares i of 0..size-1 whose
   route leads to a lower square; the lucky set is board.size with the
   squares i of 0..size-1 whose route leads to a higher square or that have
   a neighbour j in {i-2, i-1, i+1, i+2}, j >= 1, whose route leads below j.
   Size 20 with the routes 5->8 and 14->2 gives the lucky set
   {5, 12, 13, 15, 16, 20} and the unlucky set {14}. *)
LuckSetsAsStated ==
    pc = "idle"
        => LET routes == board.routes
               size == board.size
               snake(j) == j \in DOMAIN routes /\ routes[j] < j
               ladder(j) == j \in DOMAIN routes /\ routes[j] > j
           IN  /\ sim.unlucky_spaces = {i \in 0..(size - 1) : snake(i)}
               /\ sim.lucky_spaces =
                    {size} \cup
                    {i \in 0..(size - 1) :
                        \/ ladder(i)
                        \/ \E j \in {i - 2, i - 1, i + 1, i + 2} : j >= 1 /\ snake(j)}
               /\ (size = ExampleSize /\ routes = ExampleRoutes)
                    => /\ sim.lucky_spaces = {5, 12, 13, 15, 16, 20}
                       /\ sim.unlucky_spaces = {14}

\* The Sim of the example board.
ExampleBoardClassified ==
    /\ pc = "idle"
    /\ board.size = ExampleSize
    /\ board.routes = ExampleRoutes
    /\ sim.unlucky_spaces = {14}
    /\ 16 \in sim.lucky_spaces

----------------------------------------------------------------------------
(* C10: Winning is a lucky roll.  As claimed: after run() has completed on a
   fresh Sim of a board of size >= 1, with die values in 1..DIE_SIZE,
   roll_count >= 1 and lucky_rolls >= 1. *)
RunFinished == pc = "idle" /\ only_run /\ has_won(board, sim)

WinningIsALuckyRoll ==
    (RunFinished /\ board.size >= 1)
        => sim.roll_count >= 1 /\ sim.lucky_rolls >= 1

\* No chain that starts with a snake ends on the winning square.
NoSnakeLeadsToTheEnd(b) ==
    \A q \in DOMAIN b.routes :
        b.routes[q] < q => b.size \notin ReachedFrom(b.routes, {q})

(* C10, amended: after such a run roll_count >= 1 and
   lucky_rolls + unlucky_rolls >= 1: the roll that brings the token to the
   winning square is scored lucky unless the square it rolled onto is the
   start of a snake, and then it is scored unlucky; lucky_rolls >= 1 on every
   board where no chain that starts with a snake ends on the winning square. *)
WinningRollIsScored ==
    /\ (RunFinished /\ board.size >= 1)
            => /\ sim.roll_count >= 1
               /\ sim.lucky_rolls + sim.unlucky_rolls >= 1
               /\ NoSnakeLeadsToTheEnd(board) => sim.lucky_rolls >= 1
    /\ (WasBuilt /\ before.sim.position # board.size /\ sim.position = board.size)
            => LET was == before.sim
                   target == was.position + last.die_value
               IN  /\ RollStep
                   /\ IF target \in DOMAIN board.routes /\ board.routes[target] < target
                      THEN /\ sim.unlucky_rolls = was.unlucky_rolls + 1
                           /\ sim.lucky_rolls = was.lucky_rolls
                      ELSE /\ sim.lucky_rolls = was.lucky_rolls + 1
                           /\ sim.unlucky_rolls = was.unlucky_rolls

\* A run of two turns won by a roll onto the winning square itself.
RunWonByExactRoll ==
    /\ RunFinished
    /\ sim.turn_count = 2
    /\ last.rolled_position = board.size
    /\ sim.lucky_rolls >= 1

----------------------------------------------------------------------------
(* The scripted specification: the boards and MockDie queues of the tests
   test_chained_slides and test_canon_board_speedrun.  The Sim is built, put
   on a square, and turn() and run() are called on it.  Besides each test's
   own set-up the Sim starts on every other square without a route; the
   chained-slides board is played with every queue of as many values as the
   test's, the canonical board with the test's queue cut short at its end. *)

ChainedSlidesSize == 100
ChainedSlidesRoutes == (99 :> 60) @@ (60 :> 30) @@ (30 :> 2) @@ (5 :> 1)
ChainedSlidesStart == 93
ChainedSlidesQueue == <<3, 6>>

CanonSize == 100
CanonRoutes ==
    (27 :> 5) @@ (40 :> 3) @@ (43 :> 18) @@ (54 :> 31) @@ (66 :> 45)
    @@ (76 :> 58) @@ (89 :> 53) @@ (99 :> 41)
    @@ (4 :> 25) @@ (13 :> 46) @@ (33 :> 49) @@ (42 :> 63) @@ (50 :> 69)
    @@ (62 :> 81) @@ (74 :> 92)
SpeedrunQueue == <<2, 6, 5, 1, 2, 6, 4>>

\* The queues that hold the last values of q: what a MockDie draws first.
QueueEnds(q) == {SubSeq(q, k, Len(q)) : k \in 1..(Len(q) + 1)}

ScriptedSetups ==
    {[size |-> ChainedSlidesSize, routes |-> ChainedSlidesRoutes,
      position |-> p, queued_results |-> q] :
        p \in (0..ChainedSlidesSize) \ DOMAIN ChainedSlidesRoutes,
        q \in [1..Len(ChainedSlidesQueue) -> 1..DIE_SIZE]}
    \cup
    {[size |-> CanonSize, routes |-> CanonRoutes,
      position |-> p, queued_results |-> q] :
        p \in (0..CanonSize) \ DOMAIN CanonRoutes,
        q \in QueueEnds(SpeedrunQueue)}

\* Board::new(..).unwrap(), Sim::new(b, Box::new(MockDie {..})) and the
\* override of sim.position.
InitScripted ==
    /\ \E s \in ScriptedSetups :
        /\ size_in = s.size
        /\ routes_in = s.routes
        /\ setup = [position |-> s.position, queued_results |-> s.queued_results]
    /\ \E r \in BoardNewResults(size_in, routes_in) :
        /\ r.ok
        /\ board = r.board
        /\ error = r.error
    /\ sim = [SimNewState(board) EXCEPT !.position = setup.position]
    /\ rng = MockDie(setup.queued_results)
    /\ pc = "idle"
    /\ in_run = FALSE
    /\ turn_climb = 0
    /\ turn_slide = 0
    /\ die_rolls = <<>>
    /\ last = NoRoll
    /\ new_position = setup.position
    /\ turn_base = [climb |-> 0, slide |-> 0]
    /\ turn_log = {}
    /\ only_run = TRUE
    /\ before = [sim |-> sim, pc |-> "board", die_rolls |-> <<>>, sims |-> <<>>,
                 walked |-> 0]
    /\ NoBatch

NextScripted ==
    \/ TurnCall
    \/ RunCall
    \/ RunLoop
    \/ TurnRoll
    \/ TurnStore
    \/ RollPanic

SpecScripted == InitScripted /\ [][NextScripted]_vars

----------------------------------------------------------------------------
(* C11: Chained slides.  On the board of size 100 with the routes 99->60,
   60->30, 30->2 and 5->1, a Sim put on square 93 whose MockDie yields 6 and
   then 3 is, after one turn(), on square 1 and has not won, with
   roll_count = 2, turn_count = 1, climb_count = 0, climb_distance = 0,
   slide_count = 4, slide_distance = 101, biggest_climb = 0,
   biggest_slide = 101, lucky_rolls = 0, unlucky_rolls = 2 and
   longest_turn = [6, 3]. *)
ChainedSlidesSetUp ==
    /\ board = [size |-> ChainedSlidesSize, routes |-> ChainedSlidesRoutes]
    /\ setup = [position |-> ChainedSlidesStart, queued_results |-> ChainedSlidesQueue]

ChainedSlidesOutcome ==
    (ChainedSlidesSetUp /\ AfterATurn /\ sim.turn_count = 1)
        => /\ sim.roll_count = 2
           /\ sim.climb_count = 0
           /\ sim.climb_distance = 0
           /\ sim.slide_count = 4
           /\ sim.slide_distance = 101
           /\ sim.biggest_climb = 0
           /\ sim.biggest_slide = 101
           /\ sim.lucky_rolls = 0
           /\ sim.unlucky_rolls = 2
           /\ sim.longest_turn = <<6, 3>>
           /\ sim.position = 1
           /\ ~has_won(board, sim)

\* The test's turn() has returned to its caller.
ChainedSlidesPlayed ==
    /\ ChainedSlidesSetUp
    /\ pc = "idle"
    /\ ~only_run
    /\ sim.turn_count = 1
    /\ rng = MockDie(<<>>)
    /\ turn_log = {[rolls |-> <<6, 3>>, climb |-> 0, slide |-> 101]}

----------------------------------------------------------------------------
(* C12: Speedrun.  On the canonical board of 100 squares, run() on a fresh
   Sim whose MockDie holds [2, 6, 5, 1, 2, 6, 4], and so yields 4, 6, 2, 1,
   5, 6, 2, never panics and returns when those 7 values are drawn and no
   sooner, with roll_count = 7, turn_count = 5, climb_count = 4,
   slide_count = 0, climb_distance = 74, slide_distance = 0,
   biggest_climb = 21, biggest_slide = 0, lucky_rolls = 6,
   unlucky_rolls = 0 and has_won() true. *)
SpeedrunSetUp ==
    /\ board = [size |-> CanonSize, routes |-> CanonRoutes]
    /\ setup = [position |-> 0, queued_results |-> SpeedrunQueue]
    /\ only_run

SpeedrunOutcome ==
    SpeedrunSetUp
        => /\ pc # "panicked"
           /\ has_won(board, sim) <=> rng = MockDie(<<>>)
           /\ (pc = "idle" /\ turn_log # {})
                => /\ has_won(board, sim)
                   /\ sim.roll_count = 7
                   /\ sim.turn_count = 5
                   /\ sim.climb_count = 4
                   /\ sim.slide_count = 0
                   /\ sim.climb_distance = 74
                   /\ sim.slide_distance = 0
                   /\ sim.biggest_climb = 21
                   /\ sim.biggest_slide = 0
                   /\ sim.lucky_rolls = 6
                   /\ sim.unlucky_rolls = 0

\* The test's run() has returned to its caller.
SpeedrunPlayed ==
    /\ SpeedrunSetUp
    /\ pc = "idle"
    /\ has_won(board, sim)
    /\ sim.roll_count = Len(SpeedrunQueue)
    /\ sim.longest_turn = <<6, 2>>

----------------------------------------------------------------------------
(* min_avg_max and MultiSimResult::from_sims *)

\* A call that panics, and one that returns x.
Panic == <<>>
Returns(x) == <<x>>

\* sequence.iter().min().unwrap(), .max().unwrap() and .sum() of a Vec<usize>
\* that is not empty.
iter_min_first(sequence) == sequence[1]

RECURSIVE iter_min(_)
iter_min(sequence) ==
    IF Len(sequence) = 1 THEN sequence[1]
    ELSE LET rest == iter_min(Tail(sequence))
         IN  IF sequence[1] <= rest THEN sequence[1] ELSE rest

RECURSIVE iter_max(_)
iter_max(sequence) ==
    IF Len(sequence) = 1 THEN sequence[1]
    ELSE LET rest == iter_max(Tail(sequence))
         IN  IF sequence[1] > rest THEN sequence[1] ELSE rest

RECURSIVE iter_sum(_)
iter_sum(sequence) ==
    IF sequence = <<>> THEN 0 ELSE sequence[1] + iter_sum(Tail(sequence))

\* .max().unwrap() of the longest_turn vectors, in the order of Vec<usize>.
RECURSIVE vec_max(_)
vec_max(sequence) ==
    IF Len(sequence) = 1 THEN sequence[1]
    ELSE LET rest == vec_max(Tail(sequence))
         IN  IF VecGreater(sequence[1], rest) THEN sequence[1] ELSE rest

\* min_avg_max.  avg is the quotient sum / len of two f64 values: it is kept
\* as its two operands.
min_avg_max_of_nothing(sequence) ==
    IF sequence = <<>>
    THEN Some([min |-> 0, avg |-> [sum |-> 0, len |-> 0], max |-> 0])
    ELSE Some([min |-> iter_min(sequence),
               avg |-> [sum |-> iter_sum(sequence), len |-> Len(sequence)],
               max |-> iter_max(sequence)])

min_avg_max(sequence) ==
    IF sequence = <<>>
    THEN None
    ELSE Some([min |-> iter_min(sequence),
               avg |-> [sum |-> iter_sum(sequence), len |-> Len(sequence)],
               max |-> iter_max(sequence)])

\* sims.iter().map(|s| s.field).collect()
Collect(ss, field) == [i \in 1..Len(ss) |-> ss[i][field]]

\* MultiSimResult::from_sims.  Each unwrap() of a None panics, and so does
\* the unwrap() of the max() of no Sims.
from_sims(ss) ==
    LET rolls == min_avg_max(Collect(ss, "roll_count"))
        climb == min_avg_max(Collect(ss, "climb_distance"))
        slide == min_avg_max(Collect(ss, "slide_distance"))
        lucky == min_avg_max(Collect(ss, "lucky_rolls"))
        unlucky == min_avg_max(Collect(ss, "unlucky_rolls"))
    IN  IF None \in {rolls, climb, slide, lucky, unlucky} \/ ss = <<>>
        THEN Panic
        ELSE Returns(
            [min_rolls |-> rolls[1].min, avg_rolls |-> rolls[1].avg,
             max_rolls |-> rolls[1].max,
             min_climb |-> climb[1].min, avg_climb |-> climb[1].avg,
             max_climb |-> climb[1].max,
             min_slide |-> slide[1].min, avg_slide |-> slide[1].avg,
             max_slide |-> slide[1].max,
             biggest_turn_climb |-> iter_max(Collect(ss, "biggest_climb")),
             biggest_turn_slide |-> iter_max(Collect(ss, "biggest_slide")),
             longest_turn |-> vec_max(Collect(ss, "longest_turn")),
             min_lucky_rolls |-> lucky[1].min, avg_lucky_rolls |-> lucky[1].avg,
             max_lucky_rolls |-> lucky[1].max,
             min_unlucky_rolls |-> unlucky[1].min,
             avg_unlucky_rolls |-> unlucky[1].avg,
             max_unlucky_rolls |-> unlucky[1].max])

----------------------------------------------------------------------------
(* The batch specification: run_sim_batch(board, count).  Every Sim of the
   batch owns its clone of the board and its die source, here a MockDie with
   the values the Sim will draw.  The Sims take their steps of run() in any
   order, the order of the source (one Sim after the other) among them.
   from_sims is applied to the Sims when all have returned from run(), as
   run_sim_batch does, or when none has taken a step, as
   test_empty_multi_sim_result does. *)

MaxBatch == 2
MaxQueue == 2

\* A Sim of the batch, and where it is in run().
NewSim(b, r) ==
    [board |-> b, sim |-> SimNewState(b), rng |-> r, pc |-> "run",
     turn_climb |-> 0, turn_slide |-> 0, die_rolls |-> <<>>]

\* The steps of run() on the Sim p: RunLoop, TurnRoll, TurnStore and
\* RollPanic, as functions of the Sim.
RunStepSharingDie(p) ==
    IF p.pc = "run"
    THEN IF has_won(p.board, p.sim)
         THEN {[p EXCEPT !.pc = "done"]}
         ELSE {[p EXCEPT !.sim.turn_count = @ + 1,
                         !.turn_climb = 0,
                         !.turn_slide = 0,
                         !.die_rolls = <<>>,
                         !.pc = "turn"]}
    ELSE IF p.pc = "turn"
    THEN IF RngOutcomes(sims[1].rng) = {}
         THEN {[p EXCEPT !.pc = "panicked"]}
         ELSE {LET r == roll_resolve(p.board, p.sim, o.value)
               IN  [p EXCEPT !.sim = r.sim,
                             !.rng = IF p = sims[1] THEN o.rng ELSE @,
                             !.turn_climb = @ + r.frame.climb_distance,
                             !.turn_slide = @ + r.frame.slide_distance,
                             !.die_rolls = Append(@, o.value),
                             !.pc = IF TurnContinues(p.board, r.sim, o.value)
                                    THEN "turn" ELSE "turn_store"] :
                 o \in RngOutcomes(sims[1].rng)}
    ELSE IF p.pc = "turn_store"
    THEN {[p EXCEPT !.sim = StoreTurn(p.sim, p.turn_climb, p.turn_slide, p.die_rolls),
                    !.turn_climb = 0,
                    !.turn_slide = 0,
                    !.die_rolls = <<>>,
                    !.pc = "run"]}
    ELSE {}

RunStep(p) ==
    IF p.pc = "run"
    THEN IF has_won(p.board, p.sim)
         THEN {[p EXCEPT !.pc = "done"]}
         ELSE {[p EXCEPT !.sim.turn_count = @ + 1,
                         !.turn_climb = 0,
                         !.turn_slide = 0,
                         !.die_rolls = <<>>,
                         !.pc = "turn"]}
    ELSE IF p.pc = "turn"
    THEN IF RngOutcomes(p.rng) = {}
         THEN {[p EXCEPT !.pc = "panicked"]}
         ELSE {LET r == roll_resolve(p.board, p.sim, o.value)
               IN  [p EXCEPT !.sim = r.sim,
                             !.rng = o.rng,
                             !.turn_climb = @ + r.frame.climb_distance,
                             !.turn_slide = @ + r.frame.slide_distance,
                             !.die_rolls = Append(@, o.value),
                             !.pc = IF TurnContinues(p.board, r.sim, o.value)
                                    THEN "turn" ELSE "turn_store"] :
                 o \in RngOutcomes(p.rng)}
    ELSE IF p.pc = "turn_store"
    THEN {[p EXCEPT !.sim = StoreTurn(p.sim, p.turn_climb, p.turn_slide, p.die_rolls),
                    !.turn_climb = 0,
                    !.turn_slide = 0,
                    !.die_rolls = <<>>,
                    !.pc = "run"]}
    ELSE {}

\* The boards of the batches: size MaxBoardSize, with no route, with a snake
\* from square 2 to the start or with a ladder from square 2 to the end.
BatchBoards ==
    {[size |-> MaxBoardSize, routes |-> r] :
        r \in RouteMaps({2}, {0, MaxBoardSize}, 1)}

\* What the die of a Sim of the batch holds: at most MaxQueue values.
BatchQueues == UNION {[1..n -> 1..DIE_SIZE] : n \in 0..MaxQueue}

InitBatch ==
    /\ \E i \in BatchBoards : size_in = i.size /\ routes_in = i.routes
    /\ \E r \in BoardNewResults(size_in, routes_in) :
        /\ r.ok
        /\ board = r.board
        /\ error = r.error
    /\ \E count \in 0..MaxBatch :
        \E queues \in [1..count -> BatchQueues] :
            batch = [count |-> count, queues |-> queues]
    /\ sims = [i \in 1..batch.count |-> NewSim(board, MockDie(batch.queues[i]))]
    /\ result = None
    /\ pc = "batch"
    /\ sim = ZeroSim
    /\ rng = Unrollable
    /\ in_run = FALSE
    /\ turn_climb = 0
    /\ turn_slide = 0
    /\ die_rolls = <<>>
    /\ last = NoRoll
    /\ new_position = 0
    /\ turn_base = [climb |-> 0, slide |-> 0]
    /\ turn_log = {}
    /\ only_run = TRUE
    /\ setup = NoSetup
    /\ before = [sim |-> ZeroSim, pc |-> "batch", die_rolls |-> <<>>, sims |-> sims,
                 walked |-> 0]

\* No Sim of the batch has panicked: the program is still running.
Running == pc = "batch" /\ \A i \in 1..Len(sims) : sims[i].pc # "panicked"

\* One Sim of the batch takes a step of its run().
BatchStep ==
    /\ Running
    /\ \E i \in 1..Len(sims) :
        \E next \in RunStep(sims[i]) :
            sims' = [sims EXCEPT ![i] = next]
    /\ before' = Here
    /\ UNCHANGED <<size_in, routes_in, board, error, sim, rng, pc, in_run,
                   turn_climb, turn_slide, die_rolls, last, new_position,
                   turn_base, turn_log, only_run, setup, batch, result>>

\* Every Sim of the batch has returned from run().
AllDone == \A i \in 1..Len(sims) : sims[i].pc = "done"

\* No Sim of the batch has taken a step.
NoneBegun ==
    \A i \in 1..Len(sims) : sims[i] = NewSim(board, MockDie(batch.queues[i]))

\* MultiSimResult::from_sims(&sims)
FromSims ==
    /\ Running
    /\ AllDone \/ NoneBegun
    /\ LET r == from_sims([i \in 1..Len(sims) |-> sims[i].sim])
       IN  /\ result' = r
           /\ pc' = IF r = Panic THEN "aborted" ELSE "reduced"
    /\ before' = Here
    /\ UNCHANGED <<size_in, routes_in, board, error, sim, rng, in_run,
                   turn_climb, turn_slide, die_rolls, last, new_position,
                   turn_base, turn_log, only_run, setup, batch, sims>>

NextBatch == BatchStep \/ FromSims

SpecBatch == InitBatch /\ [][NextBatch]_vars

----------------------------------------------------------------------------
(* Vocabulary of the batch properties *)

\* The values of a field over the Sims of the batch.
Stats(field) == {sims[i].sim[field] : i \in 1..Len(sims)}

\* The least number of a non-empty finite set of numbers.
Least(S) == CHOOSE x \in S : \A y \in S : x <= y

----------------------------------------------------------------------------
(* C13: Batch reduction.  For Sims that are not none, from_sims returns the
   least and the greatest roll_count, climb_distance, slide_distance,
   lucky_rolls and unlucky_rolls of the Sims as min_* and max_*, the greatest
   biggest_climb and biggest_slide as biggest_turn_climb and
   biggest_turn_slide, and as longest_turn the greatest longest_turn in the
   lexicographic order; one Sim that never rolled gives zero statistics and
   an empty longest_turn. *)
BatchReduction ==
    pc = "reduced"
        => LET r == result[1]
           IN  /\ r.min_rolls = Least(Stats("roll_count"))
               /\ r.max_rolls = Greatest(Stats("roll_count"))
               /\ r.min_climb = Least(Stats("climb_distance"))
               /\ r.max_climb = Greatest(Stats("climb_distance"))
               /\ r.min_slide = Least(Stats("slide_distance"))
               /\ r.max_slide = Greatest(Stats("slide_distance"))
               /\ r.min_lucky_rolls = Least(Stats("lucky_rolls"))
               /\ r.max_lucky_rolls = Greatest(Stats("lucky_rolls"))
               /\ r.min_unlucky_rolls = Least(Stats("unlucky_rolls"))
               /\ r.max_unlucky_rolls = Greatest(Stats("unlucky_rolls"))
               /\ r.biggest_turn_climb = Greatest(Stats("biggest_climb"))
               /\ r.biggest_turn_slide = Greatest(Stats("biggest_slide"))
               /\ r.longest_turn \in Stats("longest_turn")
               /\ \A t \in Stats("longest_turn") : ~SeqLess(r.longest_turn, t)
               /\ (Len(sims) = 1 /\ sims[1].sim.roll_count = 0)
                    => LET zero == [sum |-> 0, len |-> 1]
                       IN  r = [min_rolls |-> 0, avg_rolls |-> zero, max_rolls |-> 0,
                                min_climb |-> 0, avg_climb |-> zero, max_climb |-> 0,
                                min_slide |-> 0, avg_slide |-> zero, max_slide |-> 0,
                                biggest_turn_climb |-> 0, biggest_turn_slide |-> 0,
                                longest_turn |-> <<>>,
                                min_lucky_rolls |-> 0, avg_lucky_rolls |-> zero,
                                max_lucky_rolls |-> 0,
                                min_unlucky_rolls |-> 0, avg_unlucky_rolls |-> zero,
                                max_unlucky_rolls |-> 0]

\* Two finished Sims, reduced: the first has the fewer rolls and the longer
\* climb, the second the greater longest turn.
TwoSimsReduced ==
    /\ pc = "reduced"
    /\ Len(sims) = 2
    /\ AllDone
    /\ sims[1].sim.roll_count < sims[2].sim.roll_count
    /\ sims[1].sim.climb_distance > sims[2].sim.climb_distance
    /\ SeqLess(sims[1].sim.longest_turn, sims[2].sim.longest_turn)
    /\ result[1].min_rolls = sims[1].sim.roll_count
    /\ result[1].max_climb = sims[1].sim.climb_distance
    /\ result[1].longest_turn = sims[2].sim.longest_turn

----------------------------------------------------------------------------
(* C14: Empty data is signalled.  min_avg_max returns None exactly when its
   sequence is empty; from_sims over no Sims, and so run_sim_batch(board, 0),
   panics and returns no MultiSimResult; and from_sims over the Sims of a
   batch of count >= 1 whose games have all finished returns one. *)
TheSims == [i \in 1..Len(sims) |-> sims[i].sim]

EmptyIsSignalled ==
    /\ min_avg_max(<<>>) = None
    /\ min_avg_max(<<5>>) = Some([min |-> 5, avg |-> [sum |-> 5, len |-> 1], max |-> 5])
    /\ min_avg_max(<<8, 0, 3>>)
            = Some([min |-> 0, avg |-> [sum |-> 11, len |-> 3], max |-> 8])
    /\ pc \in {"batch", "aborted", "reduced"}
            => \A field \in {"roll_count", "climb_distance", "slide_distance",
                              "lucky_rolls", "unlucky_rolls"} :
                    min_avg_max(Collect(TheSims, field)) = None <=> sims = <<>>
    /\ pc = "aborted" => batch.count = 0 /\ result = Panic
    /\ pc = "reduced" => batch.count >= 1 /\ result = from_sims(TheSims) /\ result # Panic
    /\ (Running /\ AllDone /\ batch.count >= 1) => from_sims(TheSims) # Panic
    /\ (Running /\ batch.count = 0) => from_sims(TheSims) = Panic

\* run_sim_batch(board, 0) has panicked.
EmptyBatchAborted ==
    /\ pc = "aborted"
    /\ batch.count = 0
    /\ sims = <<>>
    /\ result = Panic

----------------------------------------------------------------------------
(* C15: Route cycles are not guarded.  Board::new accepts routes that lead
   round in a circle when no route of them offends; on such a board a
   roll_resolve whose target is on the circle or leads into it never
   returns: follow_routes stays in its loop, on the start of a route, and
   every round adds 1 to climb_count + slide_count.  On a board whose routes
   are acyclic every roll_resolve returns, after at most as many hops as the
   board has routes. *)
\* The chain that begins on square t comes to a route that leads back to
\* its own start.
LeadsIntoCycle(routes, t) ==
    \E q \in ChainHops(routes, t) : q \in ReachedFrom(routes, {routes[q]})

Hops(s) == s.climb_count + s.slide_count

RouteCyclesNotGuarded ==
    /\ (pc # "new" /\ \A f \in DOMAIN routes_in : ~Offends(size_in, f, routes_in[f]))
            => pc # "rejected" /\ board.routes = routes_in
    /\ pc = "follow_routes"
            => /\ ~Acyclic(board.routes)
               /\ new_position \in DOMAIN board.routes
    /\ before.pc = "follow_routes"
            => /\ pc = "follow_routes"
               /\ Hops(sim) = Hops(before.sim) + 1
               /\ sim.roll_count = before.sim.roll_count
    /\ (RollStep /\ before.sim.position + last.die_value <= board.size)
            => LET target == before.sim.position + last.die_value
               IN  IF LeadsIntoCycle(board.routes, target)
                   THEN pc = "follow_routes"
                   ELSE /\ pc # "follow_routes"
                        /\ Hops(sim) - Hops(before.sim)
                                <= Cardinality(DOMAIN board.routes)
    /\ (SimBuilt /\ Acyclic(board.routes)) => pc # "follow_routes"

\* follow_routes has gone twice round the circle of a ladder and a snake.
TwiceRoundTheCircle ==
    /\ pc = "follow_routes"
    /\ Cardinality(DOMAIN board.routes) = 2
    /\ sim.roll_count = 1
    /\ sim.climb_count = 2
    /\ sim.slide_count = 2

----------------------------------------------------------------------------
(* C20: Position bound.  Whatever calls of roll_resolve, roll, turn and run
   are made on a Sim of an accepted board, with any die values >= 0, the
   position is in 0..board.size, and on a board with acyclic routes it is
   never the start of a route. *)
PositionBound ==
    SimBuilt
        => /\ sim.position \in 0..board.size
           /\ Acyclic(board.routes) => sim.position \notin DOMAIN board.routes
           /\ (RollStep /\ pc # "follow_routes")
                => \/ sim.position = before.sim.position
                   \/ sim.position \in
                        ReachedFrom(board.routes, {before.sim.position + last.die_value})

\* A Sim that came to the last square with its first roll and was then
\* rolled 0.
RolledNothingOnTheEnd ==
    /\ pc = "idle"
    /\ sim.roll_count = 2
    /\ sim.position = board.size
    /\ last.die_value = 0
    /\ last.rolled_position = board.size
    /\ before.sim.lucky_rolls = 1

----------------------------------------------------------------------------
(* The run specification: run() on a fresh Sim with a die of DIE_SIZE sides.
   The boards are the blank boards of the sizes 0..MaxBoardSize and boards of
   size DIE_SIZE + 2 on which each of the last DIE_SIZE squares before the
   end starts a snake, to square 0 or to square 1, and square 1 has no route
   or a ladder to the end. *)

RunSize == DIE_SIZE + 2

RunInputs ==
    {[size |-> s, routes |-> NoRoutes] : s \in 0..MaxBoardSize}
    \cup
    {[size |-> RunSize, routes |-> snakes @@ ladder] :
        snakes \in [(RunSize - DIE_SIZE)..(RunSize - 1) -> {0, 1}],
        ladder \in {NoRoutes, 1 :> RunSize}}

InitRun == InitWith(RunInputs, {ThreadRng})

NextRun ==
    \/ BoardNew
    \/ SimNew
    \/ RunCall
    \/ RunLoop
    \/ TurnRoll
    \/ TurnStore

SpecRun == InitRun /\ [][NextRun]_vars

----------------------------------------------------------------------------
(* C16: run() stops only on a win.  run() returns only from a Sim on the
   winning square, and then turn_count <= roll_count; while the Sim is not
   on it, the next thing run() does is a turn; called on a Sim that has won
   it changes nothing.  On a board where each of the DIE_SIZE squares before
   the end starts a snake and no route ends on the end, the winning square
   is never reached, run() never returns, and nothing panics. *)
Unwinnable(b) ==
    /\ \A q \in (b.size - DIE_SIZE)..(b.size - 1) :
            q \in DOMAIN b.routes /\ b.routes[q] < q
    /\ \A q \in DOMAIN b.routes : b.routes[q] # b.size

InsideRun(p) == p \in {"run", "turn", "turn_store"}

RunStopsOnlyOnAWin ==
    /\ (before.pc = "run" /\ pc = "idle") => sim.position = board.size
    /\ pc = "idle" => sim.turn_count <= sim.roll_count
    /\ (before.pc = "run" /\ before.sim.position # board.size)
            => /\ pc = "turn"
               /\ sim = [before.sim EXCEPT !.turn_count = @ + 1]
    /\ (before.pc \in {"idle", "run"} /\ before.sim.position = board.size)
            => /\ sim = before.sim
               /\ ~InsideRun(pc) \/ pc = "run"
    /\ (SimBuilt /\ Unwinnable(board))
            => /\ sim.position # board.size
               /\ pc # "panicked"
               /\ InsideRun(before.pc) => InsideRun(pc) /\ in_run

\* A run on a board that cannot be won: two turns played, every roll down a
\* snake, and run() about to call turn() again.
StillRunning ==
    /\ Unwinnable(board)
    /\ pc = "run"
    /\ sim.turn_count = 2
    /\ sim.roll_count = 3
    /\ sim.slide_count >= 3
    /\ sim.position = 0

----------------------------------------------------------------------------
(* The fair run specification: run() on a fresh Sim over a board without
   routes, of a size in 1..MaxSize, with a LoadedDie of MaxRolls free rolls.
   The program keeps running: a step that can be taken is taken. *)

InitFair ==
    InitWith({[size |-> s, routes |-> NoRoutes] : s \in 1..MaxSize},
             {LoadedDie(MaxRolls)})

NextFair ==
    \/ BoardNew
    \/ SimNew
    \/ RunCall
    \/ RunLoop
    \/ TurnRoll
    \/ TurnStore

SpecFair == InitFair /\ [][NextFair]_vars /\ WF_vars(NextFair)

----------------------------------------------------------------------------
(* C17: termination on a board without routes.  On a board of size >= 1
   without routes, with a die whose values are in 1..DIE_SIZE and that
   yields 1 again and again, the position never decreases, a roll moves the
   token by exactly the die's value or (past the end) not at all, and run()
   eventually returns from a Sim on the winning square. *)
RunReturnedWon ==
    /\ before.pc = "run"
    /\ pc = "idle"
    /\ sim.position = board.size

ExactRollsOnly ==
    /\ sim.position >= before.sim.position
    /\ RollStep
         => /\ last.die_value \in 1..DIE_SIZE
            /\ sim.position =
                  IF before.sim.position + last.die_value <= board.size
                  THEN before.sim.position + last.die_value
                  ELSE before.sim.position

RunTerminatesWithoutRoutes == []ExactRollsOnly /\ <>RunReturnedWon

\* run() has returned from a win on the largest board, the die's free rolls
\* used up without reaching the end, the last of them an overroll.
WonOnAOne ==
    /\ RunReturnedWon
    /\ board.size = MaxSize
    /\ rng = LoadedDie(0)
    /\ sim.roll_count = MaxRolls + 1
    /\ sim.longest_turn = <<DIE_SIZE, DIE_SIZE, DIE_SIZE, 1>>

----------------------------------------------------------------------------
(* C18: batch independence.  Every Sim of a batch plays on a board equal to
   the batch's board, and a step of one Sim leaves every other Sim as it
   was; so, the values each Sim's die will yield being fixed, whatever the
   order of the Sims' steps, each Sim ends as it ends when run on its own,
   and the MultiSimResult is the one of the Sims run one after another. *)
RECURSIVE RunAlone(_)
RunAlone(p) ==
    IF RunStep(p) = {} THEN p ELSE RunAlone(CHOOSE next \in RunStep(p) : TRUE)

OneAfterAnother ==
    [i \in 1..batch.count |-> RunAlone(NewSim(board, MockDie(batch.queues[i])))]

BatchIndependence ==
    /\ Len(sims) = batch.count
    /\ \A i \in 1..Len(sims) : sims[i].board = board
    /\ \A i, j \in 1..Len(sims) :
            (sims[i] # before.sims[i] /\ j # i) => sims[j] = before.sims[j]
    /\ AllDone => sims = OneAfterAnother
    /\ (AllDone /\ pc = "reduced")
            => result = from_sims([i \in 1..batch.count |-> OneAfterAnother[i].sim])

\* Two Sims have returned from run(), the second before the first: the
\* first took the last step, after two rolls, the second won with one roll.
FinishedOutOfOrder ==
    /\ pc = "batch"
    /\ Len(sims) = 2
    /\ AllDone
    /\ before.sims[1].pc = "run"
    /\ before.sims[2].pc = "done"
    /\ sims[1].sim.roll_count = 2
    /\ sims[2].sim.roll_count = 1
    /\ sims[1].sim.turn_count = 2

----------------------------------------------------------------------------
(* C19: determinism.  Two Sims built from the same board whose dice were
   given the same values are in the same state whenever they are at the
   same place in run() with the same values left to draw: the same position
   and the same counters, longest_turn among them.  The luck sets each Sim
   derived from its board are the sets calc_lucky_spaces gives for the board,
   and no step of a Sim changes its board or its luck sets. *)
LuckSets(s) == [lucky |-> s.lucky_spaces, unlucky |-> s.unlucky_spaces]

Determinism ==
    /\ \A i, j \in 1..Len(sims) :
            ( /\ batch.queues[i] = batch.queues[j]
              /\ sims[i].rng = sims[j].rng
              /\ sims[i].pc = sims[j].pc )
                => sims[i] = sims[j]
    /\ \A i \in 1..Len(sims) :
            /\ sims[i].board = before.sims[i].board
            /\ LuckSets(sims[i].sim) = LuckSets(before.sims[i].sim)
            /\ LuckSets(sims[i].sim) = calc_lucky_spaces(sims[i].board)

\* Two Sims with the same two die values have both finished: each slid
\* down the snake with its first roll and won with its second.
TwinSims ==
    /\ Len(sims) = 2
    /\ batch.queues[1] = batch.queues[2]
    /\ Len(batch.queues[1]) = 2
    /\ AllDone
    /\ sims[1].sim.roll_count = 2
    /\ sims[1].sim.slide_count = 1
    /\ sims[1].sim.lucky_rolls = 1
    /\ sims[2].sim.longest_turn = <<batch.queues[2][1]>>

----------------------------------------------------------------------------
(* C21: conservation of movement.  On a board whose routes are acyclic, a
   Sim built by Sim::new stands on the sum of the die values of its rolls
   that were not overrolls, plus climb_distance, minus slide_distance.
   climb_count <= climb_distance, slide_count <= slide_distance,
   biggest_climb <= climb_distance and biggest_slide <= slide_distance.  The
   climb_distance and slide_distance a roll returns are not both non-zero,
   and their difference is the displacement that following the routes
   caused: the position left minus the square rolled, nothing for an
   overroll. *)
ConservationOfMovement ==
    (SimBuilt /\ Acyclic(board.routes))
        => /\ sim.position = Walked + sim.climb_distance - sim.slide_distance
           /\ sim.climb_count <= sim.climb_distance
           /\ sim.slide_count <= sim.slide_distance
           /\ sim.biggest_climb <= sim.climb_distance
           /\ sim.biggest_slide <= sim.slide_distance
           /\ RollStep
                => /\ last.climb_distance = 0 \/ last.slide_distance = 0
                   /\ last.climb_distance - last.slide_distance
                        = IF last.rolled_position <= board.size
                          THEN sim.position - last.rolled_position
                          ELSE 0

\* A Sim that has climbed and slid, by a chain of a ladder and a snake among
\* its routes, and whose third roll was an overroll.
WalkedClimbedSlidOverrolled ==
    /\ pc = "idle"
    /\ Acyclic(board.routes)
    /\ sim.roll_count = 3
    /\ RollStep
    /\ last.rolled_position > board.size
    /\ sim.climb_count = 1
    /\ sim.slide_count = 1
    /\ sim.climb_distance # sim.slide_distance
    /\ Walked > sim.position
    /\ sim.position > 0

----------------------------------------------------------------------------
(* C22: the longest turn is also the longest by length.  On a Sim that only
   run() was called on, with a die of values 1..DIE_SIZE, the rolls of every
   turn played are DIE_SIZE repeated and then one last value: a value below
   DIE_SIZE, or DIE_SIZE when that roll won the game.  So the length of
   longest_turn is the greatest number of rolls of a turn so far, and a turn
   of more rolls is greater, in the lexicographic order, than a turn of
   fewer. *)
TurnShape(rolls) ==
    /\ rolls # <<>>
    /\ \A k \in 1..(Len(rolls) - 1) : rolls[k] = DIE_SIZE
    /\ rolls[Len(rolls)] \in 1..DIE_SIZE

LongestTurnIsLongest ==
    (SimBuilt /\ only_run)
        => /\ \A t \in turn_log :
                /\ TurnShape(t.rolls)
                /\ t.rolls[Len(t.rolls)] = DIE_SIZE => sim.position = board.size
           /\ Len(sim.longest_turn) = Greatest({Len(t.rolls) : t \in turn_log} \cup {0})
           /\ \A t, u \in turn_log :
                Len(t.rolls) < Len(u.rolls) => SeqLess(t.rolls, u.rolls)

\* run() has returned after two turns: one of a single roll below DIE_SIZE
\* and one of two rolls, which is the longest turn.
ShortTurnAndLongTurn ==
    /\ pc = "idle"
    /\ only_run
    /\ sim.position = board.size
    /\ sim.turn_count = 2
    /\ \E t, u \in turn_log :
        /\ Len(t.rolls) = 1
        /\ t.rolls[1] < DIE_SIZE
        /\ Len(u.rolls) = 2
        /\ sim.longest_turn = u.rolls

====
